---------------------------- MODULE Spec2Model ----------------------------
(***************************************************************************)
(* A model of msssk/core: the object copy engine of src/src/lang.ts (copy, *)
(* copyArray, create, duplicate, getPropertyNames, getPropertyDescriptor)  *)
(* over an explicit heap of objects with prototype links and property      *)
(* descriptors, and the timing wrappers of src/src/util.ts (createTimer,   *)
(* debounce, throttle, throttleAfter) over a clock and a timer queue.      *)
(***************************************************************************)
EXTENDS Integers, Sequences, FiniteSets, TLC

VARIABLES
    heap,       \* the object heap: heap[id] is the object with reference id
    pre,        \* the heap as it was when the last lang call was made
    call,       \* the last lang call: operation and arguments
    outcome,    \* the last lang call's result: returned reference and error
    now,        \* the system clock, Date.now()
    queue,      \* the host's pending timeouts (setTimeout not yet run or cleared)
    nextId,     \* the id the next setTimeout returns
    timer,      \* debounce's timer and createTimer's timerId, per instance
    lastRunTick, \* throttle's lastRunTick, per instance
    ran,        \* throttleAfter's ran, per instance
    destroyed,  \* whether a handle's destroy has run, per instance
    calls,      \* history: the invocations made, in order
    runs        \* history: the executions of the callback, in order

langVars == <<heap, pre, call, outcome>>
utilVars == <<now, queue, nextId, timer, lastRunTick, ran, destroyed, calls, runs>>
vars == <<langVars, utilVars>>

(***************************************************************************)
(* Values.  A value is an integer: 0 is undefined, a negative number is a  *)
(* primitive, a positive number is a reference into the heap.              *)
(***************************************************************************)
Undefined == 0
Prim1 == 0 - 1
Prim2 == 0 - 2
Prim3 == 0 - 3
Prim4 == 0 - 4

IsRef(v) == v > 0

(***************************************************************************)
(* Property descriptors: the tagged variant of the language, a data        *)
(* property (value, writable) or an accessor property (get, set), each     *)
(* with enumerable and configurable.  NoDesc is "no such property".        *)
(***************************************************************************)
DataDesc(v, e, c, w) ==
    [kind |-> "data", value |-> v, get |-> Undefined, set |-> Undefined,
     enumerable |-> e, configurable |-> c, writable |-> w]

AccDesc(g, s, e, c) ==
    [kind |-> "accessor", value |-> Undefined, get |-> g, set |-> s,
     enumerable |-> e, configurable |-> c, writable |-> FALSE]

NoDesc ==
    [kind |-> "absent", value |-> Undefined, get |-> Undefined, set |-> Undefined,
     enumerable |-> FALSE, configurable |-> FALSE, writable |-> FALSE]

(***************************************************************************)
(* Objects.  props is the sequence of own properties in creation order,    *)
(* elems the elements of an array, ret what a function returns when it is  *)
(* called as a getter.                                                     *)
(***************************************************************************)
MkObject(kind, proto, props, elems, ret) ==
    [kind |-> kind, proto |-> proto, props |-> props, elems |-> elems, ret |-> ret]

Prop(n, d) == [name |-> n, d |-> d]

\* A new plain object whose prototype is proto: {} and Object.create(proto).
ObjectCreate(proto) == MkObject("object", proto, <<>>, <<>>, Undefined)


(***************************************************************************)
(* The well-known objects and the language's primitives on the heap.       *)
(***************************************************************************)
NullRef == 0
ObjectPrototype == 1
ArrayPrototype == 2

\* Array.isArray(v)
IsArray(h, v) == IsRef(v) /\ h[v].kind = "array"

\* isObject(item): a non-null object that is neither an array nor a RegExp
\* (typeof of a function is 'function', so a function is not one either).
isObject(h, item) ==
    /\ item # Undefined
    /\ IsRef(item)
    /\ h[item].kind \notin {"function"}
    /\ ~IsArray(h, item)
    /\ h[item].kind # "regexp"

\* The position of own property n in object id, 0 when it has none.
OwnIndex(h, id, n) ==
    LET idx == {i \in 1..Len(h[id].props) : h[id].props[i].name = n}
    IN  IF idx = {} THEN 0 ELSE CHOOSE i \in idx : TRUE

\* hasOwnProperty.call(object, name)
HasOwn(h, id, n) == OwnIndex(h, id, n) # 0

\* Object.getOwnPropertyDescriptor(object, name); NoDesc for undefined.
GetOwnPropertyDescriptor(h, id, n) ==
    IF HasOwn(h, id, n) THEN h[id].props[OwnIndex(h, id, n)].d ELSE NoDesc

\* Object.getOwnPropertyNames(object): every own name, in creation order.
GetOwnPropertyNames(h, id) == [i \in 1..Len(h[id].props) |-> h[id].props[i].name]

\* Object.getPrototypeOf(object)
GetPrototypeOf(h, id) == h[id].proto

\* The elements of seq that are not in seen, each once, in order.
RECURSIVE AppendNew(_, _, _)
AppendNew(names, own, i) ==
    IF i > Len(own) THEN names
    ELSE IF \E k \in 1..Len(names) : names[k] = own[i]
         THEN AppendNew(names, own, i + 1)
         ELSE AppendNew(Append(names, own[i]), own, i + 1)

\* getPropertyDescriptor(object, property): the first own descriptor on the
\* prototype chain, NoDesc (undefined) when no level has one.
RECURSIVE getPropertyDescriptor(_, _, _)
getPropertyDescriptor(h, object, property) ==
    LET descriptor == GetOwnPropertyDescriptor(h, object, property)
    IN  IF descriptor # NoDesc THEN descriptor
        ELSE IF GetPrototypeOf(h, object) # NullRef
             THEN getPropertyDescriptor(h, GetPrototypeOf(h, object), property)
             ELSE NoDesc

\* source[name]: the value of a data property, the getter's result for an
\* accessor, undefined when the chain has no such property.
Get(h, id, n) ==
    LET d == getPropertyDescriptor(h, id, n)
    IN  IF d.kind = "data" THEN d.value
        ELSE IF d.kind = "accessor" /\ d.get # Undefined THEN h[d.get].ret
        ELSE Undefined

\* The names a for-in loop over object visits: the enumerable properties of
\* the object and of its prototypes, a name shadowed by a nearer property
\* (enumerable or not) being skipped.
RECURSIVE ForInFrom(_, _, _, _)
ForInFrom(h, object, visited, names) ==
    LET own == GetOwnPropertyNames(h, object)
        fresh == SelectSeq(AppendNew(<<>>, own, 1),
                           LAMBDA n : \A k \in 1..Len(visited) : visited[k] # n)
        enum == SelectSeq(fresh,
                          LAMBDA n : GetOwnPropertyDescriptor(h, object, n).enumerable)
    IN  IF GetPrototypeOf(h, object) = NullRef THEN names \o enum
        ELSE ForInFrom(h, GetPrototypeOf(h, object), visited \o fresh, names \o enum)

ForInNames(h, object) == ForInFrom(h, object, <<>>, <<>>)

\* The heap with own property n of object id set to descriptor d: an
\* existing property keeps its position, a new one is added last.
SetOwn(h, id, n, d) ==
    LET i == OwnIndex(h, id, n)
    IN  IF i = 0
        THEN [h EXCEPT ![id].props = Append(@, Prop(n, d))]
        ELSE [h EXCEPT ![id].props[i].d = d]

\* Whether Object.defineProperty(target, name, desc) with a complete
\* descriptor is rejected (TypeError): the property exists, is not
\* configurable, and desc would change it.
DefineRejected(h, target, n, desc) ==
    LET cur == GetOwnPropertyDescriptor(h, target, n)
    IN  /\ cur # NoDesc
        /\ cur # desc
        /\ ~cur.configurable
        /\ \/ desc.configurable
           \/ desc.enumerable # cur.enumerable
           \/ desc.kind # cur.kind
           \/ /\ cur.kind = "data"
              /\ ~cur.writable
              /\ (desc.writable \/ desc.value # cur.value)
           \/ /\ cur.kind = "accessor"
              /\ (desc.get # cur.get \/ desc.set # cur.set)

\* A definition that makes every property enumerable.
DefineEnumerable(h, target, n, desc) ==
    IF DefineRejected(h, target, n, desc)
    THEN [heap |-> h, err |-> "TypeError"]
    ELSE [heap |-> SetOwn(h, target, n, [desc EXCEPT !.enumerable = TRUE]),
          err |-> "none"]

\* Object.defineProperty(target, name, descriptor)
DefineProperty(h, target, n, desc) ==
    IF DefineRejected(h, target, n, desc)
    THEN [heap |-> h, err |-> "TypeError"]
    ELSE [heap |-> SetOwn(h, target, n, desc), err |-> "none"]

\* Whether the assignment target[name] = value stores nothing: the nearest
\* property on the chain is a non-writable data property or an accessor.
AssignBlocked(h, target, n) ==
    LET d == getPropertyDescriptor(h, target, n)
    IN  \/ d.kind = "accessor"
        \/ d.kind = "data" /\ ~d.writable

\* An assignment that leaves a property the target already owns as it is.
AssignKeepingExisting(h, target, n, value, strict) ==
    LET d == getPropertyDescriptor(h, target, n)
    IN  IF d.kind = "accessor" \/ (d.kind = "data" /\ ~d.writable)
        THEN [heap |-> h,
              err |-> IF strict /\ ~(d.kind = "accessor" /\ d.set # Undefined)
                      THEN "TypeError" ELSE "none"]
        ELSE IF HasOwn(h, target, n) THEN [heap |-> h, err |-> "none"]
        ELSE [heap |-> SetOwn(h, target, n, DataDesc(value, TRUE, TRUE, TRUE)),
              err |-> "none"]

\* target[name] = value.  A writable own data property takes the value and
\* keeps its attributes; with no property on the chain, or a writable data
\* property on a prototype, a new own property (writable, enumerable,
\* configurable) is created; an accessor with a setter has the setter
\* called (user code: it stores nothing here); an accessor without setter
\* or a non-writable data property rejects the assignment, a TypeError in
\* strict code and silently ignored otherwise.
Assign(h, target, n, value, strict) ==
    LET d == getPropertyDescriptor(h, target, n)
        own == GetOwnPropertyDescriptor(h, target, n)
    IN  IF d.kind = "accessor"
        THEN IF d.set # Undefined THEN [heap |-> h, err |-> "none"]
             ELSE [heap |-> h, err |-> IF strict THEN "TypeError" ELSE "none"]
        ELSE IF d.kind = "data" /\ ~d.writable
        THEN [heap |-> h, err |-> IF strict THEN "TypeError" ELSE "none"]
        ELSE IF own # NoDesc
        THEN [heap |-> SetOwn(h, target, n, [own EXCEPT !.value = value]), err |-> "none"]
        ELSE [heap |-> SetOwn(h, target, n, DataDesc(value, TRUE, TRUE, TRUE)), err |-> "none"]

\* The value true.
TrueValue == 0 - 5

\* The for loop of getPropertyNames over the own names of one level:
\* a name is pushed when setOfNames[name] !== true, and setOfNames[name]
\* is then assigned true.  setOfNames is a plain object, so both the read
\* and the assignment go through its prototype chain (the assignment is
\* never rejected by the properties Object.prototype has here).
RECURSIVE CollectNames(_, _, _, _, _)
CollectNames(h, setOfNames, names, ownNames, i) ==
    IF i > Len(ownNames) THEN [heap |-> h, names |-> names]
    ELSE LET name == ownNames[i]
         IN  IF Get(h, setOfNames, name) # TrueValue
             THEN CollectNames(Assign(h, setOfNames, name, TrueValue, FALSE).heap,
                               setOfNames, Append(names, name), ownNames, i + 1)
             ELSE CollectNames(h, setOfNames, names, ownNames, i + 1)

\* The do-while walk of getPropertyNames up the prototype chain, until
\* null or Object.prototype.
RECURSIVE PropertyNamesFrom(_, _, _, _)
PropertyNamesFrom(h, setOfNames, object, names) ==
    LET collected == CollectNames(h, setOfNames, names,
                                  GetOwnPropertyNames(h, object), 1)
        next == GetPrototypeOf(h, object)
    IN  IF next # NullRef /\ next # ObjectPrototype
        THEN PropertyNamesFrom(collected.heap, setOfNames, next, collected.names)
        ELSE collected.names

\* getPropertyNames(object); setOfNames = {} lives for the call only.
getPropertyNames(h, object) ==
    PropertyNamesFrom(Append(h, ObjectCreate(ObjectPrototype)), Len(h) + 1,
                      object, <<>>)

(***************************************************************************)
(* The copy engine.  Every operator takes the heap and returns a record    *)
(* with the heap it leaves, the value it returns (ret) and the error it    *)
(* raises (err, "none" for a normal return).  A raised error leaves the    *)
(* heap as modified so far.  strict says whether the build runs the module *)
(* as strict code, which decides what a rejected assignment does.          *)
(***************************************************************************)
CopyArgs(sources, target, deep, descriptors, inherited, assignPrototype) ==
    [sources |-> sources, target |-> target, deep |-> deep,
     descriptors |-> descriptors, inherited |-> inherited,
     assignPrototype |-> assignPrototype]

Returned(h, v) == [heap |-> h, ret |-> v, err |-> "none"]
Raised(h, e) == [heap |-> h, ret |-> Undefined, err |-> e]

\* The target copy builds: a new object with the prototype of sources[0]
\* under assignPrototype, else kwArgs.target, else a new plain object.
\* ret is the target, heap the heap holding it.
MakeTarget(h, kwArgs) ==
    IF kwArgs.assignPrototype
    THEN Returned(Append(h, ObjectCreate(GetPrototypeOf(h, kwArgs.sources[1]))), Len(h) + 1)
    ELSE IF kwArgs.target # Undefined
    THEN Returned(h, kwArgs.target)
    ELSE Returned(Append(h, ObjectCreate(ObjectPrototype)), Len(h) + 1)

\* The names copy takes from a source when it copies descriptors.
DescriptorNames(h, kwArgs, source) ==
    IF kwArgs.inherited THEN getPropertyNames(h, source)
    ELSE GetOwnPropertyNames(h, source)

\* The descriptor copy takes for a name of a source.
SourceDescriptor(h, kwArgs, source, name) ==
    IF kwArgs.inherited THEN getPropertyDescriptor(h, source, name)
    ELSE GetOwnPropertyDescriptor(h, source, name)

\* The arguments of the recursive call copy makes for a nested object.
NestedArgs(kwArgs, value, descriptors) ==
    CopyArgs(<<value>>, Undefined, TRUE, descriptors, kwArgs.inherited,
             kwArgs.assignPrototype)

\* The arguments of the call copyArray makes for an object item.
ItemArgs(kwArgs, item) ==
    CopyArgs(<<item>>, Undefined, kwArgs.deep, kwArgs.descriptors,
             kwArgs.inherited, kwArgs.assignPrototype)

RECURSIVE copy(_, _, _)
RECURSIVE copyArray(_, _, _, _)
RECURSIVE MapItems(_, _, _, _, _, _)
RECURSIVE CopyDescriptors(_, _, _, _, _, _, _)
RECURSIVE CopyForIn(_, _, _, _, _, _, _)
RECURSIVE CopySources(_, _, _, _, _)

\* array.map(item => ...) of copyArray, from item i on; out holds the
\* items mapped so far and ret, in the end, all of them.
MapItems(h, items, i, out, kwArgs, strict) ==
    IF i > Len(items) THEN Returned(h, out)
    ELSE LET item == items[i]
             r == IF IsArray(h, item) THEN copyArray(h, item, kwArgs, strict)
                  ELSE IF isObject(h, item) THEN copy(h, ItemArgs(kwArgs, item), strict)
                  ELSE Returned(h, item)
         IN  IF r.err # "none" THEN r
             ELSE MapItems(r.heap, items, i + 1, Append(out, r.ret), kwArgs, strict)

\* A copyArray that gives a new array its source's items themselves.
copyArrayShallow(h, array, kwArgs, strict) ==
    Returned(Append(h, MkObject("array", ArrayPrototype, <<>>, h[array].elems,
                                Undefined)),
             Len(h) + 1)

copyArray(h, array, kwArgs, strict) ==
    LET m == MapItems(h, h[array].elems, 1, <<>>, kwArgs, strict)
    IN  IF m.err # "none" THEN m
        ELSE Returned(Append(m.heap,
                             MkObject("array", ArrayPrototype, <<>>, m.ret, Undefined)),
                      Len(m.heap) + 1)

\* The value copy stores for a source value: with deep, the copy of an
\* array or of an object, else the value itself.
DeepValue(h, kwArgs, value, descriptors, strict) ==
    IF kwArgs.deep /\ IsArray(h, value) THEN copyArray(h, value, kwArgs, strict)
    ELSE IF kwArgs.deep /\ isObject(h, value)
    THEN copy(h, NestedArgs(kwArgs, value, descriptors), strict)
    ELSE Returned(h, value)

\* The descriptors branch of copy's loop over one source, from names[j] on.
CopyDescriptors(h, kwArgs, target, source, names, j, strict) ==
    IF j > Len(names) THEN Returned(h, target)
    ELSE LET name == names[j]
             descriptor == SourceDescriptor(h, kwArgs, source, name)
             v == DeepValue(h, kwArgs, descriptor.value, TRUE, strict)
         IN  IF v.err # "none" THEN v
             ELSE LET d == DefineProperty(v.heap, target, name,
                                          [descriptor EXCEPT !.value = v.ret])
                  IN  IF d.err # "none" THEN Raised(d.heap, d.err)
                      ELSE CopyDescriptors(d.heap, kwArgs, target, source, names,
                                           j + 1, strict)

\* A for-in branch that, with deep, copies a nested object into the plain
\* object the target already holds under the name.
CopyForInMerging(h, kwArgs, target, source, names, j, strict) ==
    IF j > Len(names) THEN Returned(h, target)
    ELSE LET name == names[j]
             value == Get(h, source, name)
             held == Get(h, target, name)
         IN  IF kwArgs.inherited \/ HasOwn(h, source, name)
             THEN LET v == IF kwArgs.deep /\ isObject(h, value) /\ isObject(h, held)
                           THEN copy(h, [NestedArgs(kwArgs, value, FALSE)
                                            EXCEPT !.target = held,
                                                   !.assignPrototype = FALSE], strict)
                           ELSE DeepValue(h, kwArgs, value, FALSE, strict)
                  IN  IF v.err # "none" THEN v
                      ELSE LET a == Assign(v.heap, target, name, v.ret, strict)
                           IN  IF a.err # "none" THEN Raised(a.heap, a.err)
                               ELSE CopyForIn(a.heap, kwArgs, target, source, names,
                                              j + 1, strict)
             ELSE CopyForIn(h, kwArgs, target, source, names, j + 1, strict)

\* The for-in branch of copy's loop over one source, from names[j] on.
CopyForIn(h, kwArgs, target, source, names, j, strict) ==
    IF j > Len(names) THEN Returned(h, target)
    ELSE LET name == names[j]
         IN  IF kwArgs.inherited \/ HasOwn(h, source, name)
             THEN LET v == DeepValue(h, kwArgs, Get(h, source, name), FALSE, strict)
                  IN  IF v.err # "none" THEN v
                      ELSE LET a == Assign(v.heap, target, name, v.ret, strict)
                           IN  IF a.err # "none" THEN Raised(a.heap, a.err)
                               ELSE CopyForIn(a.heap, kwArgs, target, source, names,
                                              j + 1, strict)
             ELSE CopyForIn(h, kwArgs, target, source, names, j + 1, strict)

\* copy's loop over the sources, from sources[i] on.
CopySources(h, kwArgs, target, i, strict) ==
    IF i > Len(kwArgs.sources) THEN Returned(h, target)
    ELSE LET source == kwArgs.sources[i]
             r == IF kwArgs.descriptors
                  THEN CopyDescriptors(h, kwArgs, target, source,
                                       DescriptorNames(h, kwArgs, source), 1, strict)
                  ELSE CopyForIn(h, kwArgs, target, source,
                                 ForInNames(h, source), 1, strict)
         IN  IF r.err # "none" THEN r
             ELSE CopySources(r.heap, kwArgs, target, i + 1, strict)

\* A copy that does not look at the number of its sources.
copyUnchecked(h, kwArgs, strict) ==
    LET t == MakeTarget(h, [kwArgs EXCEPT
                               !.assignPrototype = @ /\ Len(kwArgs.sources) > 0])
    IN  CopySources(t.heap, kwArgs, t.ret, 1, strict)

copy(h, kwArgs, strict) ==
    IF Len(kwArgs.sources) = 0 THEN Raised(h, "RangeError")
    ELSE LET t == MakeTarget(h, kwArgs)
         IN  CopySources(t.heap, kwArgs, t.ret, 1, strict)

\* A create that copies its mixins' descriptors.
createWithDescriptors(h, prototype, mixins, strict) ==
    IF Len(mixins) = 0 THEN Raised(h, "RangeError")
    ELSE copy(Append(h, ObjectCreate(prototype)),
              CopyArgs(mixins, Len(h) + 1, FALSE, TRUE, FALSE, FALSE), strict)

\* create(prototype, ...mixins)
create(h, prototype, mixins, strict) ==
    IF Len(mixins) = 0 THEN Raised(h, "RangeError")
    ELSE copy(Append(h, ObjectCreate(prototype)),
              CopyArgs(mixins, Len(h) + 1, FALSE, FALSE, FALSE, FALSE), strict)

\* A duplicate that is not deep.
duplicateShallow(h, source, strict) ==
    copy(h, CopyArgs(<<source>>, Undefined, FALSE, TRUE, FALSE, TRUE), strict)

\* duplicate(source)
duplicate(h, source, strict) ==
    copy(h, CopyArgs(<<source>>, Undefined, TRUE, TRUE, FALSE, TRUE), strict)

(***************************************************************************)
(* The timing wrappers of util.ts.  The host's timer facility is the set   *)
(* queue of pending timeouts, each with the time from which it may run;    *)
(* the host runs a pending timeout at any time from then on.  The state of *)
(* the wrappers is gathered in a record so that a wrapper can be invoked   *)
(* from inside the callback it runs.                                       *)
(***************************************************************************)
MaxTime == 5
MaxCalls == 3
Delay == 2

Instances == {1, 2}

\* The receiver and the arguments of an invocation.
Payloads == {<<"r1", "x">>, <<"r2", "y">>, <<"r1", "y">>}

\* What the wrapped callback does when it is executed: return, raise an
\* error, or invoke the wrapper again before it returns.
Behaviours == {"return", "throw", "reenter"}

NullTimer == 0

\* The clock readings a program can start at: Date.now() is a count of
\* milliseconds, zero included.
ClockStarts == {0, 1}

UtilInit ==
    /\ now \in ClockStarts
    /\ queue = {}
    /\ nextId = 1
    /\ timer = [w \in Instances |-> NullTimer]
    /\ lastRunTick = [w \in Instances |-> 0]
    /\ ran = [w \in Instances |-> FALSE]
    /\ destroyed = [w \in Instances |-> FALSE]
    /\ calls = <<>>
    /\ runs = <<>>

\* No wrapper is invoked in the runs of the lang calls.
UtilIdle == UtilInit /\ now = 1

\* The state the wrappers act on.
U ==
    [queue |-> queue, nextId |-> nextId, timer |-> timer,
     lastRunTick |-> lastRunTick, ran |-> ran, destroyed |-> destroyed,
     calls |-> calls, runs |-> runs]

\* The step that leaves the wrappers' state as st.
Becomes(st) ==
    /\ queue' = st.queue
    /\ nextId' = st.nextId
    /\ timer' = st.timer
    /\ lastRunTick' = st.lastRunTick
    /\ ran' = st.ran
    /\ destroyed' = st.destroyed
    /\ calls' = st.calls
    /\ runs' = st.runs
    /\ UNCHANGED <<now, langVars>>

\* setTimeout(fn, delay) for instance w, fn closing over this and args:
\* a new pending timeout, whose id is st.nextId.
SetTimeout(st, w, delay, this, args) ==
    [st EXCEPT !.queue = @ \cup {[id |-> st.nextId, due |-> now + delay, w |-> w,
                                  this |-> this, args |-> args]},
               !.nextId = @ + 1]

\* clearTimeout(id): the timeout no longer runs; no effect when it has run.
ClearTimeout(st, id) == [st EXCEPT !.queue = {t \in @ : t.id # id}]

\* History: an invocation of instance w.  ran says whether it executed the
\* callback itself, scheduled and due which timeout it set (0 for none),
\* pendingBefore whether a timeout of w was pending when it was made.
Invocation(st, w, this, args, nested, executed, scheduled, due) ==
    [w |-> w, at |-> now, this |-> this, args |-> args, nested |-> nested,
     ran |-> executed, scheduled |-> scheduled, due |-> due,
     pendingBefore |-> \E t \in st.queue : t.w = w]

Logged(st, c) == [st EXCEPT !.calls = Append(@, c)]

\* callback.apply(this, args): history of the execution; id is the timeout
\* that ran it (0 for a synchronous execution), seen the number of
\* invocations made before it.
Executed(st, w, this, args, id) ==
    [st EXCEPT !.runs = Append(@, [w |-> w, at |-> now, this |-> this, args |-> args,
                                   id |-> id, seen |-> Len(st.calls)])]

\* The wrapper debounce returns, invoked on instance w.
Debounced(st, w, this, args, nested) ==
    LET cleared == IF st.timer[w] # NullTimer THEN ClearTimeout(st, st.timer[w]) ELSE st
        set == SetTimeout(cleared, w, Delay, this, args)
    IN  Logged([set EXCEPT !.timer[w] = st.nextId],
               Invocation(st, w, this, args, nested, FALSE, st.nextId, now + Delay))

\* The function debounce hands to setTimeout, run by the host for the
\* pending timeout t: the callback, then timer = null unless it raised.
DebounceTimeout(st, t, b, this, args) ==
    LET called == Executed([st EXCEPT !.queue = @ \ {t}], t.w, t.this, t.args, t.id)
    IN  IF b = "throw" THEN called
        ELSE IF b = "reenter"
        THEN [Debounced(called, t.w, this, args, TRUE) EXCEPT !.timer[t.w] = NullTimer]
        ELSE [called EXCEPT !.timer[t.w] = NullTimer]

\* The wrapper throttle returns, invoked from inside the callback: the
\* callback it executes returns.
ThrottledNested(st, w, this, args) ==
    IF st.lastRunTick[w] = 0 \/ (now - st.lastRunTick[w]) >= Delay
    THEN [Executed(Logged(st, Invocation(st, w, this, args, TRUE, TRUE, 0, 0)),
                   w, this, args, 0)
            EXCEPT !.lastRunTick[w] = now]
    ELSE Logged(st, Invocation(st, w, this, args, TRUE, FALSE, 0, 0))

\* The wrapper throttle returns, invoked on instance w with a callback
\* that behaves as b (and, re-entering, invokes the wrapper with this2 and
\* args2): lastRunTick is set when the callback has returned.
Throttled(st, w, this, args, b, this2, args2) ==
    IF st.lastRunTick[w] = 0 \/ (now - st.lastRunTick[w]) >= Delay
    THEN LET called == Executed(Logged(st, Invocation(st, w, this, args, FALSE, TRUE, 0, 0)),
                                w, this, args, 0)
         IN  IF b = "throw" THEN called
             ELSE IF b = "reenter"
             THEN [ThrottledNested(called, w, this2, args2) EXCEPT !.lastRunTick[w] = now]
             ELSE [called EXCEPT !.lastRunTick[w] = now]
    ELSE Logged(st, Invocation(st, w, this, args, FALSE, FALSE, 0, 0))

\* A throttleAfter wrapper that schedules an execution at every invocation.
ThrottledAfterUnguarded(st, w, this, args, nested) ==
    Logged([SetTimeout(st, w, Delay, this, args) EXCEPT !.ran[w] = TRUE],
           Invocation(st, w, this, args, nested, FALSE, st.nextId, now + Delay))

\* The wrapper throttleAfter returns, invoked on instance w.
ThrottledAfter(st, w, this, args, nested) ==
    IF ~st.ran[w]
    THEN Logged([SetTimeout(st, w, Delay, this, args) EXCEPT !.ran[w] = TRUE],
                Invocation(st, w, this, args, nested, FALSE, st.nextId, now + Delay))
    ELSE Logged(st, Invocation(st, w, this, args, nested, FALSE, 0, 0))

\* The function throttleAfter hands to setTimeout: the callback, then
\* ran = false unless it raised.
ThrottleAfterTimeout(st, t, b, this, args) ==
    LET called == Executed([st EXCEPT !.queue = @ \ {t}], t.w, t.this, t.args, t.id)
    IN  IF b = "throw" THEN called
        ELSE IF b = "reenter"
        THEN [ThrottledAfter(called, t.w, this, args, TRUE) EXCEPT !.ran[t.w] = FALSE]
        ELSE [called EXCEPT !.ran[t.w] = FALSE]

\* createTimer(callback, delay) for instance w: the timeout is set and its
\* id kept in timerId.
createTimer(st, w, delay) ==
    Logged([SetTimeout(st, w, delay, "r1", "x") EXCEPT !.timer[w] = st.nextId],
           Invocation(st, w, "r1", "x", FALSE, FALSE, st.nextId, now + delay))

\* A destructor that forgets the timeout without clearing it.
TimerDestructorForgetting(st, w) == [st EXCEPT !.timer[w] = NullTimer]

\* The function createTimer hands to createHandle: clearTimeout(timerId),
\* timerId = null.
TimerDestructor(st, w) ==
    [ClearTimeout(st, st.timer[w]) EXCEPT !.timer[w] = NullTimer]

\* destroy() of the handle createHandle returns: it runs the destructor the
\* first time it is called and nothing afterwards.
HandleDestroy(st, w) ==
    IF st.destroyed[w] THEN st
    ELSE [TimerDestructor(st, w) EXCEPT !.destroyed[w] = TRUE]

\* The host runs the callback of a createTimer timeout.
TimerTimeout(st, t) ==
    Executed([st EXCEPT !.queue = @ \ {t}], t.w, t.this, t.args, t.id)

(***************************************************************************)
(* The steps of the timing wrappers.                                       *)
(***************************************************************************)
\* Time passes.
Tick ==
    /\ now < MaxTime
    /\ now' = now + 1
    /\ UNCHANGED <<queue, nextId, timer, lastRunTick, ran, destroyed, calls, runs, langVars>>

\* A caller invokes a debounced function.
InvokeDebounced ==
    /\ Len(calls) < MaxCalls
    /\ \E w \in Instances, p \in Payloads :
         Becomes(Debounced(U, w, p[1], p[2], FALSE))

\* The host runs a due timeout of a debounced function.
FireDebounced ==
    \E t \in queue, b \in Behaviours, p \in Payloads :
        /\ now >= t.due
        /\ b = "reenter" => Len(calls) < MaxCalls
        /\ b # "reenter" => p = <<"r1", "x">>
        /\ Becomes(DebounceTimeout(U, t, b, p[1], p[2]))

\* A caller invokes the throttled function (instance 1).
InvokeThrottled ==
    /\ Len(calls) < MaxCalls
    /\ \E p \in Payloads, b \in Behaviours, p2 \in Payloads :
         /\ b = "reenter" => Len(calls) + 1 < MaxCalls
         /\ b # "reenter" => p2 = <<"r1", "x">>
         /\ Becomes(Throttled(U, 1, p[1], p[2], b, p2[1], p2[2]))

\* A caller invokes the throttleAfter function (instance 1).
InvokeThrottledAfter ==
    /\ Len(calls) < MaxCalls
    /\ \E p \in Payloads :
         Becomes(ThrottledAfter(U, 1, p[1], p[2], FALSE))

\* The host runs a due timeout of a throttleAfter function.
FireThrottledAfter ==
    \E t \in queue, b \in Behaviours, p \in Payloads :
        /\ now >= t.due
        /\ b = "reenter" => Len(calls) < MaxCalls
        /\ b # "reenter" => p = <<"r1", "x">>
        /\ Becomes(ThrottleAfterTimeout(U, t, b, p[1], p[2]))

\* The timer of instance w has been created.
Created(w) == \E i \in 1..Len(calls) : calls[i].w = w

\* A caller creates the timer of an instance, with no delay or with Delay.
CreateTimer ==
    \E w \in Instances, delay \in {0, Delay} :
        /\ ~Created(w)
        /\ now + delay <= MaxTime
        /\ Becomes(createTimer(U, w, delay))

\* A caller destroys the handle of a created timer.
DestroyTimer ==
    \E w \in Instances :
        /\ Created(w)
        /\ Becomes(HandleDestroy(U, w))

\* The host runs a due createTimer timeout.
FireTimer ==
    \E t \in queue :
        /\ now >= t.due
        /\ Becomes(TimerTimeout(U, t))

(***************************************************************************)
(* The objects the calls are made on.  The heap starts with the built-in   *)
(* prototypes, a getter and a setter function, a regular expression, a     *)
(* nested object holding an inner object, an array holding a primitive, an *)
(* object, an array and the regular expression, a prototype P with the     *)
(* source S1 that inherits from it, a second source S2, and a target T     *)
(* with its prototype TP.  The properties named "a" vary over the shapes   *)
(* a property can have.                                                    *)
(***************************************************************************)
Getter == 3
Setter == 4
RegExp == 5
Inner == 6
Nested == 7
Item == 8
InnerArray == 9
Array == 10
P == 11
S1 == 12
S2 == 13
TP == 14
T == 15

\* The shapes of S1.a: absent, a plain value, a nested object, an array, a
\* property defined with the defaults of Object.defineProperty (hidden),
\* a read-only enumerable property, an enumerable getter.
S1Shapes ==
    { NoDesc,
      DataDesc(Prim1, TRUE, TRUE, TRUE),
      DataDesc(Nested, TRUE, TRUE, TRUE),
      DataDesc(Array, TRUE, TRUE, TRUE),
      DataDesc(Prim1, FALSE, FALSE, FALSE),
      DataDesc(Prim1, TRUE, TRUE, FALSE),
      AccDesc(Getter, Undefined, TRUE, TRUE) }

\* The shapes of P.a, which S1 inherits or shadows.
PShapes == { NoDesc, DataDesc(Prim3, TRUE, TRUE, TRUE) }

\* The shapes of S2.a.
S2Shapes ==
    { NoDesc,
      DataDesc(Prim2, TRUE, TRUE, TRUE),
      DataDesc(Prim2, FALSE, FALSE, FALSE) }

\* The shapes of the target: <<T.a, TP.a>>.
TargetShapes ==
    { <<NoDesc, NoDesc>>,
      <<DataDesc(Prim4, TRUE, TRUE, TRUE), NoDesc>>,
      <<DataDesc(Prim4, TRUE, TRUE, FALSE), NoDesc>>,
      <<DataDesc(Prim4, TRUE, FALSE, TRUE), NoDesc>>,
      <<AccDesc(Getter, Setter, TRUE, TRUE), NoDesc>>,
      <<NoDesc, DataDesc(Prim4, TRUE, TRUE, TRUE)>>,
      <<NoDesc, DataDesc(Prim4, TRUE, TRUE, FALSE)>>,
      <<NoDesc, AccDesc(Getter, Setter, TRUE, TRUE)>>,
      <<NoDesc, AccDesc(Getter, Undefined, TRUE, TRUE)>> }

\* The property a with descriptor d, nothing when d is NoDesc.
OptProp(n, d) == IF d = NoDesc THEN <<>> ELSE <<Prop(n, d)>>

InitialHeap(s1a, pa, s2a, ta, tpa) ==
    << MkObject("object", NullRef, <<>>, <<>>, Undefined),
       MkObject("array", ObjectPrototype, <<>>, <<>>, Undefined),
       MkObject("function", ObjectPrototype, <<>>, <<>>, Prim4),
       MkObject("function", ObjectPrototype, <<>>, <<>>, Undefined),
       MkObject("regexp", ObjectPrototype, <<>>, <<>>, Undefined),
       MkObject("object", ObjectPrototype,
                <<Prop("x", DataDesc(Prim2, TRUE, TRUE, TRUE))>>, <<>>, Undefined),
       MkObject("object", ObjectPrototype,
                <<Prop("x", DataDesc(Prim1, TRUE, TRUE, TRUE)),
                  Prop("inner", DataDesc(Inner, TRUE, TRUE, TRUE)),
                  Prop("h", DataDesc(RegExp, FALSE, FALSE, FALSE))>>, <<>>, Undefined),
       MkObject("object", ObjectPrototype,
                <<Prop("x", DataDesc(Prim2, TRUE, TRUE, TRUE))>>, <<>>, Undefined),
       MkObject("array", ArrayPrototype, <<>>, <<Prim2>>, Undefined),
       MkObject("array", ArrayPrototype, <<>>,
                <<Prim1, Item, InnerArray, RegExp>>, Undefined),
       MkObject("object", ObjectPrototype,
                <<Prop("b", DataDesc(Prim3, TRUE, TRUE, TRUE))>> \o OptProp("a", pa),
                <<>>, Undefined),
       MkObject("object", P, OptProp("a", s1a), <<>>, Undefined),
       MkObject("object", ObjectPrototype,
                OptProp("a", s2a) \o <<Prop("c", DataDesc(Prim2, TRUE, TRUE, TRUE))>>,
                <<>>, Undefined),
       MkObject("object", ObjectPrototype, OptProp("a", tpa), <<>>, Undefined),
       MkObject("object", TP,
                <<Prop("t", DataDesc(Prim4, TRUE, TRUE, TRUE))>> \o OptProp("a", ta),
                <<>>, Undefined) >>

InitialHeaps ==
    { InitialHeap(s1a, pa, s2a, ts[1], ts[2]) :
        s1a \in S1Shapes, pa \in PShapes, s2a \in S2Shapes, ts \in TargetShapes }

\* The source lists of the calls: none, one source, two in either order.
SourceLists == { <<>>, <<S1>>, <<S2>>, <<S1, S2>>, <<S2, S1>> }

NoCall ==
    [op |-> "none", kwArgs |-> CopyArgs(<<>>, Undefined, FALSE, FALSE, FALSE, FALSE),
     prototype |-> NullRef, strict |-> FALSE]

NoOutcome == [ret |-> Undefined, err |-> "none"]

LangStart ==
    /\ heap \in InitialHeaps
    /\ pre = heap
    /\ call = NoCall
    /\ outcome = NoOutcome

InitLang == LangStart /\ UtilIdle

\* No lang call is made in the runs of the timing wrappers.
LangIdle ==
    /\ heap = <<>>
    /\ pre = <<>>
    /\ call = NoCall
    /\ outcome = NoOutcome

\* The effect of a call with result r on the lang variables.
Finish(c, r) ==
    /\ pre' = heap
    /\ call' = c
    /\ heap' = r.heap
    /\ outcome' = [ret |-> r.ret, err |-> r.err]
    /\ UNCHANGED utilVars

\* copy(kwArgs), for every combination of the flags, with and without a
\* supplied target.
CallCopy ==
    /\ call.op = "none"
    /\ \E sources \in SourceLists, target \in {Undefined, T},
          deep \in BOOLEAN, descriptors \in BOOLEAN, inherited \in BOOLEAN,
          assignPrototype \in BOOLEAN, strict \in BOOLEAN :
         LET kwArgs == CopyArgs(sources, target, deep, descriptors, inherited,
                                assignPrototype)
         IN  Finish([op |-> "copy", kwArgs |-> kwArgs, prototype |-> NullRef,
                     strict |-> strict],
                    copy(heap, kwArgs, strict))

\* create(prototype, ...mixins)
CallCreate ==
    /\ call.op = "none"
    /\ \E prototype \in {TP, P}, mixins \in SourceLists, strict \in BOOLEAN :
         Finish([op |-> "create",
                 kwArgs |-> CopyArgs(mixins, Undefined, FALSE, FALSE, FALSE, FALSE),
                 prototype |-> prototype, strict |-> strict],
                create(heap, prototype, mixins, strict))

\* duplicate(source)
CallDuplicate ==
    /\ call.op = "none"
    /\ \E source \in {S1, S2, Nested}, strict \in BOOLEAN :
         Finish([op |-> "duplicate",
                 kwArgs |-> CopyArgs(<<source>>, Undefined, TRUE, TRUE, FALSE, TRUE),
                 prototype |-> NullRef, strict |-> strict],
                duplicate(heap, source, strict))

NextLang == CallCopy \/ CallCreate \/ CallDuplicate

SpecLang == InitLang /\ [][NextLang]_vars

InitUtil == LangIdle /\ UtilInit

NextDebounce == Tick \/ InvokeDebounced \/ FireDebounced
SpecDebounce == InitUtil /\ [][NextDebounce]_vars

NextThrottle == Tick \/ InvokeThrottled
SpecThrottle == InitUtil /\ [][NextThrottle]_vars

NextThrottleAfter == Tick \/ InvokeThrottledAfter \/ FireThrottledAfter
SpecThrottleAfter == InitUtil /\ [][NextThrottleAfter]_vars

\* The host's timer facility runs a due timeout eventually, and time passes.
NextTimer == Tick \/ CreateTimer \/ DestroyTimer \/ FireTimer
SpecTimer ==
    InitUtil /\ [][NextTimer]_vars /\ WF_vars(Tick) /\ WF_vars(FireTimer)

(***************************************************************************)
(* Vocabulary of the statements about the copy engine.  They are stated    *)
(* over the heap before the call (pre), the call and its outcome, without  *)
(* using copy itself.                                                      *)
(***************************************************************************)
AllNames == {"a", "b", "c", "t", "x", "inner", "h"}

InSeq(x, seq) == \E k \in 1..Len(seq) : seq[k] = x

kw == call.kwArgs
Sources == call.kwArgs.sources
Returns == outcome.err = "none"
Result == outcome.ret

\* The call got a target of the caller's and writes into it.
TargetSupplied == kw.target # Undefined /\ ~kw.assignPrototype

\* The result is an object that did not exist before the call.
ResultIsNew == Result > Len(pre)

\* Where the lookup of a name on the target starts before the call: the
\* supplied target itself, else the prototype the new target is given.
WriteStart ==
    IF call.op = "create" THEN call.prototype
    ELSE IF kw.assignPrototype THEN GetPrototypeOf(pre, Sources[1])
    ELSE IF kw.target # Undefined THEN kw.target
    ELSE ObjectPrototype

\* The value the target had for a name before the call.
BeforeValue(n) == IF WriteStart = NullRef THEN Undefined ELSE Get(pre, WriteStart, n)

\* An assignment of the name to the target is rejected: its nearest
\* property is a non-writable data property or an accessor.
Blocked(n) == WriteStart # NullRef /\ AssignBlocked(pre, WriteStart, n)

\* The rejected assignment raises in strict code: no setter takes it.
BlockedHard(n) ==
    /\ Blocked(n)
    /\ LET d == getPropertyDescriptor(pre, WriteStart, n)
       IN  d.kind = "data" \/ d.set = Undefined

\* Source s has name n for a copy without descriptors: the property n
\* resolves to on s is enumerable, and own unless inherited is set.
HasEnumerable(s, n, inherited) ==
    IF inherited THEN getPropertyDescriptor(pre, s, n).enumerable
    ELSE GetOwnPropertyDescriptor(pre, s, n).enumerable

\* Source s has name n for a copy of descriptors: an own name, or with
\* inherited set a name on the chain below the root.
HasName(s, n, inherited) ==
    IF inherited THEN InSeq(n, getPropertyNames(pre, s))
    ELSE HasOwn(pre, s, n)

SourceHas(s, n) ==
    IF kw.descriptors THEN HasName(s, n, kw.inherited)
    ELSE HasEnumerable(s, n, kw.inherited)

\* The position of the last source that has name n, 0 when none has.
LastWith(n) ==
    LET idx == {i \in 1..Len(Sources) : SourceHas(Sources[i], n)}
    IN  IF idx = {} THEN 0 ELSE CHOOSE i \in idx : \A k \in idx : k <= i

\* The names deep copy takes from a nested object o under the flags.
CopiedNames(o, descriptors, inherited) ==
    {n \in AllNames :
        IF descriptors THEN HasName(o, n, inherited)
        ELSE HasEnumerable(o, n, inherited)}

\* v (in the heap after the call) is a deep copy of o (in the heap before):
\* an array for an array, with a copy at every index; a plain object for a
\* plain object, with a copy (and with descriptors the same attributes)
\* under every copied name; the very same value for anything else.
RECURSIVE IsCopyOf(_, _, _, _)
IsCopyOf(v, o, descriptors, inherited) ==
    IF IsArray(pre, o)
    THEN /\ IsArray(heap, v)
         /\ v > Len(pre)
         /\ Len(heap[v].elems) = Len(pre[o].elems)
         /\ \A i \in 1..Len(pre[o].elems) :
              IsCopyOf(heap[v].elems[i], pre[o].elems[i], descriptors, inherited)
    ELSE IF isObject(pre, o)
    THEN /\ isObject(heap, v)
         /\ v > Len(pre)
         /\ \A n \in CopiedNames(o, descriptors, inherited) :
              IF descriptors
              THEN LET d == IF inherited THEN getPropertyDescriptor(pre, o, n)
                            ELSE GetOwnPropertyDescriptor(pre, o, n)
                       c == GetOwnPropertyDescriptor(heap, v, n)
                   IN  /\ [c EXCEPT !.value = Undefined] = [d EXCEPT !.value = Undefined]
                       /\ IsCopyOf(c.value, d.value, descriptors, inherited)
              ELSE IsCopyOf(Get(heap, v, n), Get(pre, o, n), descriptors, inherited)
    ELSE v = o

\* The value the call is to leave under a name whose last source is s:
\* the source's value, or with deep its copy.
Transferred(v, o) ==
    IF kw.deep THEN IsCopyOf(v, o, kw.descriptors, kw.inherited) ELSE v = o

\* The returned object is the supplied target, or a new object.
RightObject ==
    IF TargetSupplied THEN Result = kw.target ELSE ResultIsNew

\* The final value of name n is the last source's, else the target's.
RightValue(n) ==
    IF LastWith(n) = 0 THEN Get(heap, Result, n) = BeforeValue(n)
    ELSE Transferred(Get(heap, Result, n), Get(pre, Sources[LastWith(n)], n))

IsPlainCopy == call.op = "copy" /\ Len(Sources) >= 1 /\ ~kw.descriptors

RejectedAssignment == \E n \in AllNames : LastWith(n) # 0 /\ BlockedHard(n)

\* A source has a name under which the target already holds a property
\* that is not configurable: its own before the call, or the one defined
\* from an earlier source.
RejectedDefinition ==
    \E n \in AllNames : \E i \in 1..Len(Sources) :
        /\ SourceHas(Sources[i], n)
        /\ \/ /\ TargetSupplied
              /\ HasOwn(pre, kw.target, n)
              /\ ~GetOwnPropertyDescriptor(pre, kw.target, n).configurable
           \/ \E j \in 1..(i - 1) :
                /\ SourceHas(Sources[j], n)
                /\ ~SourceDescriptor(pre, kw, Sources[j], n).configurable

IsCopyOrCreate == call.op \in {"copy", "create"}

PlainRefs(h, vs) == {v \in vs : IsArray(h, v) \/ isObject(h, v)}

\* The values an object holds: its data properties' values, what its
\* getters return, its elements.
Held(h, id) ==
    {h[id].props[i].d.value : i \in 1..Len(h[id].props)}
    \cup {h[h[id].props[i].d.get].ret :
            i \in {k \in 1..Len(h[id].props) : h[id].props[k].d.get # Undefined}}
    \cup {h[id].elems[i] : i \in 1..Len(h[id].elems)}

\* The plain objects and arrays reachable from a set of them.
RECURSIVE Reach(_, _, _)
Reach(h, frontier, seen) ==
    IF frontier = {} THEN seen
    ELSE LET next == PlainRefs(h, UNION {Held(h, id) : id \in frontier})
         IN  Reach(h, next \ (seen \cup frontier), seen \cup frontier)

ReachFromSources == Reach(pre, {Sources[i] : i \in 1..Len(Sources)}, {})

\* The value the result holds under n and the value the source s held:
\* the descriptor's value when descriptors are copied, else what reading
\* the name gives.
ResultValue(n) ==
    IF kw.descriptors THEN GetOwnPropertyDescriptor(heap, Result, n).value
    ELSE Get(heap, Result, n)

SourceValue(s, n) ==
    IF kw.descriptors THEN SourceDescriptor(pre, kw, s, n).value
    ELSE Get(pre, s, n)

\* Name n was copied to the result: a source has it, and its assignment
\* was not rejected.
Copied(n) == LastWith(n) # 0 /\ (kw.descriptors \/ ~Blocked(n))

IsDeepCopy == call.op = "copy" /\ Len(Sources) >= 1 /\ kw.deep /\ Returns

\* C3: after copy with deep set, under every copied name the result holds
\* a deep copy of the last source's value: no plain object or array
\* reachable from it is reachable from the sources, it holds equal values
\* at every copied name and index, and a value that is neither a plain
\* object nor an array is the source's very reference.
C3_DeepCopyDistinct ==
    IsDeepCopy =>
        \A n \in AllNames :
            Copied(n) =>
                /\ IsCopyOf(ResultValue(n), SourceValue(Sources[LastWith(n)], n),
                            kw.descriptors, kw.inherited)
                /\ Reach(heap, PlainRefs(heap, {ResultValue(n)}), {})
                      \cap ReachFromSources = {}

\* C3 witness: a deep copy of a source holding the array returned; the
\* copy holds a new array whose object item and array item are new and
\* whose regular expression is the source's.
C3_Witness ==
    /\ IsDeepCopy /\ ~kw.descriptors
    /\ Sources = <<S1>> /\ Get(pre, S1, "a") = Array
    /\ LET v == Get(heap, Result, "a")
       IN  /\ IsArray(heap, v) /\ v # Array
           /\ heap[v].elems[1] = Prim1
           /\ heap[v].elems[2] # Item /\ Get(heap, heap[v].elems[2], "x") = Prim2
           /\ heap[v].elems[3] # InnerArray /\ heap[heap[v].elems[3]].elems = <<Prim2>>
           /\ heap[v].elems[4] = RegExp

IsFreshDescriptorCopy ==
    call.op = "copy" /\ Len(Sources) >= 1 /\ kw.descriptors /\ ~TargetSupplied /\ Returns

\* A value deep copy replaces.
IsPlain(v) == IsArray(pre, v) \/ isObject(pre, v)

\* C4: after copy with descriptors set into a fresh target, for every own
\* name of a source (with inherited, every name on its chain below the
\* root) the target has an own property with the attributes, the getter
\* and setter and the value of the nearest descriptor of the (last) source
\* that has the name; only with deep is the value of a data descriptor
\* that is a plain object or array replaced by its deep copy.
C4_DescriptorsPreserved ==
    IsFreshDescriptorCopy =>
        \A n \in AllNames :
            LastWith(n) # 0 =>
                LET d == SourceDescriptor(pre, kw, Sources[LastWith(n)], n)
                    c == GetOwnPropertyDescriptor(heap, Result, n)
                IN  /\ c # NoDesc
                    /\ [c EXCEPT !.value = Undefined] = [d EXCEPT !.value = Undefined]
                    /\ IF kw.deep /\ IsPlain(d.value)
                       THEN /\ c.value # d.value
                            /\ IsCopyOf(c.value, d.value, TRUE, kw.inherited)
                       ELSE c.value = d.value

\* C4 witness: a shallow descriptor copy with inherited set of a source
\* with a getter and an inherited name returned; the result owns the
\* getter and the inherited name.
C4_Witness ==
    /\ IsFreshDescriptorCopy /\ kw.inherited /\ ~kw.deep
    /\ Sources = <<S1>>
    /\ GetOwnPropertyDescriptor(pre, S1, "a").kind = "accessor"
    /\ GetOwnPropertyDescriptor(heap, Result, "a").get = Getter
    /\ ~HasOwn(pre, S1, "b") /\ HasOwn(heap, Result, "b")

\* C4 second case, reached as well: without deep a nested object keeps
\* its identity, with deep it is replaced.
C4_NestedIdentity ==
    /\ IsFreshDescriptorCopy /\ ~kw.deep
    /\ Sources = <<S1>>
    /\ GetOwnPropertyDescriptor(pre, S1, "a").value = Nested
    /\ GetOwnPropertyDescriptor(heap, Result, "a").value = Nested

IsDuplicate == call.op = "duplicate"

\* C9: duplicate(source) returns a new object with the prototype of
\* source whose own names are exactly those of source, each with the same
\* attributes, getter and setter; nested plain objects and arrays are
\* reference-distinct deep copies; names source only inherits are not own
\* on the result and read the same through the shared prototype.
C9_Duplicate ==
    IsDuplicate =>
        LET source == Sources[1]
        IN  /\ Returns
            /\ ResultIsNew
            /\ GetPrototypeOf(heap, Result) = GetPrototypeOf(pre, source)
            /\ \A n \in AllNames :
                 IF HasOwn(pre, source, n)
                 THEN LET d == GetOwnPropertyDescriptor(pre, source, n)
                          c == GetOwnPropertyDescriptor(heap, Result, n)
                      IN  /\ [c EXCEPT !.value = Undefined] = [d EXCEPT !.value = Undefined]
                          /\ IsCopyOf(c.value, d.value, TRUE, FALSE)
                          /\ IsPlain(d.value) => c.value # d.value
                 ELSE /\ ~HasOwn(heap, Result, n)
                      /\ Get(heap, Result, n) = Get(pre, source, n)
            /\ Reach(heap, PlainRefs(heap, Held(heap, Result)), {})
                  \cap Reach(pre, {source}, {}) = {}

\* C9 witness: the duplicate of S1 holding the nested object: the copy's
\* nested object and its inner object are new, the hidden property is
\* still hidden, and the inherited name reads through the prototype.
C9_Witness ==
    /\ IsDuplicate /\ Returns /\ Sources = <<S1>>
    /\ Get(pre, S1, "a") = Nested
    /\ LET v == Get(heap, Result, "a")
       IN  /\ v # Nested
           /\ Get(heap, v, "inner") # Inner
           /\ Get(heap, Get(heap, v, "inner"), "x") = Prim2
           /\ GetOwnPropertyDescriptor(heap, v, "h") = DataDesc(RegExp, FALSE, FALSE, FALSE)
    /\ ~HasOwn(heap, Result, "b") /\ Get(heap, Result, "b") = Prim3

IsCreate == call.op = "create" /\ Len(Sources) >= 1

\* The own property create leaves for a mixin name.
Mixed(n) == DataDesc(Get(pre, Sources[LastWith(n)], n), TRUE, TRUE, TRUE)

\* C10 as stated: create with at least one mixin returns a new object
\* with the given prototype whose own properties are exactly the own
\* enumerable properties of the mixins, each a writable, enumerable,
\* configurable data property holding the last mixin's value, for every
\* prototype.
C10_CreateMixes ==
    IsCreate =>
        /\ Returns
        /\ ResultIsNew
        /\ GetPrototypeOf(heap, Result) = call.prototype
        /\ \A n \in AllNames :
             IF LastWith(n) # 0
             THEN GetOwnPropertyDescriptor(heap, Result, n) = Mixed(n)
             ELSE ~HasOwn(heap, Result, n)

\* C10 amended: the same for every mixin name that the prototype's chain
\* does not hold as a read-only data property or as an accessor; under
\* such a name the result gets no own property, and in strict code the
\* call raises a TypeError instead of returning when the name is read-only
\* or a setter-less accessor on the prototype's chain.
C10_CreateMixesWritable ==
    IsCreate =>
        /\ Returns <=> ~(call.strict /\ RejectedAssignment)
        /\ Returns =>
             /\ ResultIsNew
             /\ GetPrototypeOf(heap, Result) = call.prototype
             /\ \A n \in AllNames :
                  IF LastWith(n) # 0 /\ ~Blocked(n)
                  THEN GetOwnPropertyDescriptor(heap, Result, n) = Mixed(n)
                  ELSE ~HasOwn(heap, Result, n)

\* C10 witness: create over a prototype that defines the name as a
\* writable property, with a mixin holding the name read-only: the result
\* owns the name, writable.
C10_Witness ==
    /\ IsCreate /\ Returns /\ call.prototype = TP /\ Sources = <<S1>>
    /\ GetOwnPropertyDescriptor(pre, TP, "a") = DataDesc(Prim4, TRUE, TRUE, TRUE)
    /\ GetOwnPropertyDescriptor(pre, S1, "a") = DataDesc(Prim1, TRUE, TRUE, FALSE)
    /\ GetOwnPropertyDescriptor(heap, Result, "a") = DataDesc(Prim1, TRUE, TRUE, TRUE)
    /\ ~HasOwn(heap, Result, "b")

(***************************************************************************)
(* Vocabulary of the statements about the timing wrappers, over the        *)
(* histories of invocations (calls) and executions (runs).                 *)
(***************************************************************************)
CallsOf(w) == {i \in 1..Len(calls) : calls[i].w = w}
RunsOf(w) == {k \in 1..Len(runs) : runs[k].w = w}

\* The last element of a non-empty set of positions.
Last(S) == CHOOSE i \in S : \A j \in S : j <= i

\* Execution k uses the receiver and the arguments of invocation i.
UsesPayloadOf(k, i) == runs[k].this = calls[i].this /\ runs[k].args = calls[i].args

\* The invocation of w that follows invocation i.
NextCall(w, i) == CHOOSE j \in CallsOf(w) : j > i /\ \A m \in CallsOf(w) : m > i => j <= m

\* Invocation i of w belongs to the run that ends with the last invocation
\* of w: from i on, every invocation is followed by the next in less than
\* delay.
InFinalRun(w, i) ==
    \A j \in CallsOf(w) :
        (j >= i /\ j # Last(CallsOf(w))) =>
            calls[NextCall(w, j)].at - calls[j].at < Delay

\* The invocation that scheduled execution k.
Scheduler(k) == CHOOSE i \in 1..Len(calls) : calls[i].scheduled = runs[k].id

\* C5: of a run of invocations of a debounced function, each less than
\* delay after the one before and followed by no further invocation, only
\* the last causes an execution: every execution scheduled by an
\* invocation of that run is scheduled by its last invocation, uses that
\* invocation's receiver and arguments, happens no sooner than delay
\* after it, and is its only execution.
C5_DebounceCollapses ==
    \A w \in Instances : \A k \in RunsOf(w) :
        LET i == Scheduler(k)
        IN  InFinalRun(w, i) =>
                /\ i = Last(CallsOf(w))
                /\ UsesPayloadOf(k, i)
                /\ runs[k].at >= calls[i].at + Delay
                /\ \A j \in RunsOf(w) : j # k => Scheduler(j) # i

\* The last invocation of w before invocation i that executed the callback.
AcceptedBefore(w, i) == {j \in CallsOf(w) : j < i /\ calls[j].ran}

\* C6: an invocation of a throttled function executes the callback,
\* synchronously and with its own receiver and arguments, exactly when it
\* is the first invocation of the wrapper or at least delay has elapsed
\* since the last accepted invocation; so any two executions are at least
\* delay apart.
C6_ThrottleWindow ==
    /\ \A i \in CallsOf(1) :
         calls[i].ran <=>
            \/ \A j \in CallsOf(1) : j >= i
            \/ /\ AcceptedBefore(1, i) # {}
               /\ calls[i].at - calls[Last(AcceptedBefore(1, i))].at >= Delay
    /\ \A k \in RunsOf(1) :
         /\ calls[runs[k].seen].ran
         /\ UsesPayloadOf(k, runs[k].seen)
         /\ runs[k].at = calls[runs[k].seen].at
    /\ \A j, k \in RunsOf(1) : j < k => runs[k].at - runs[j].at >= Delay

\* The invocations of the throttleAfter function that opened a window:
\* those that scheduled an execution.
Opened == {i \in CallsOf(1) : calls[i].scheduled # NullTimer}

\* C7: the first invocation of a throttleAfter function opens a window;
\* an invocation that opens a window executes nothing itself and schedules
\* one execution, delay later, with its receiver and arguments; every
\* invocation made while that execution is scheduled, and every one made
\* from inside it, is dropped: it schedules nothing; every execution is the
\* scheduled execution of one window, runs no sooner than delay after the
\* window opened, with the opening invocation's receiver and arguments,
\* and no window is executed twice: the executions and the scheduled
\* executions still pending are as many as the windows opened.
C7_ThrottleAfterWindow ==
    /\ \A i \in CallsOf(1) :
         /\ ~calls[i].ran
         /\ (\A j \in CallsOf(1) : j >= i) => i \in Opened
         /\ (calls[i].pendingBefore \/ calls[i].nested) => i \notin Opened
         /\ i \in Opened => calls[i].due = calls[i].at + Delay
    /\ \A k \in RunsOf(1) :
         /\ runs[k].id # NullTimer
         /\ \E i \in Opened :
              /\ calls[i].scheduled = runs[k].id
              /\ i <= runs[k].seen
              /\ UsesPayloadOf(k, i)
              /\ runs[k].at >= calls[i].at + Delay
         /\ \A j \in RunsOf(1) : j # k => runs[j].id # runs[k].id
    /\ \A i, j \in Opened : i # j => calls[i].scheduled # calls[j].scheduled
    /\ \A t \in queue :
         /\ \E i \in Opened : calls[i].scheduled = t.id /\ t.due = calls[i].due
         /\ \A k \in RunsOf(1) : runs[k].id # t.id
    /\ Cardinality(RunsOf(1)) + Cardinality(queue) = Cardinality(Opened)

\* C7 witness: a window was opened, two invocations with other arguments
\* were dropped before its execution, and the one execution used the
\* opening invocation's arguments.
C7_Witness ==
    /\ Len(calls) = 3 /\ Len(runs) = 1 /\ queue = {}
    /\ Opened = {1}
    /\ calls[2].pendingBefore /\ calls[3].pendingBefore
    /\ calls[2].args # calls[1].args /\ calls[3].this # calls[1].this
    /\ runs[1].seen = 3
    /\ UsesPayloadOf(1, 1)

\* The timeout createTimer set for instance w, and whether it has run.
TimerCall(w) == calls[Last(CallsOf(w))]
HasRun(w) == RunsOf(w) # {}
Pending(w) == {t \in queue : t.w = w}

\* The callback of a timer runs at most once, no sooner than its delay.
TimerRunsOnceInTime ==
    \A w \in Instances :
        /\ Cardinality(RunsOf(w)) <= 1
        /\ \A k \in RunsOf(w) : runs[k].at >= TimerCall(w).due

\* Once a handle is destroyed, or its callback has run, nothing changes
\* for its timer any more: no execution is added or scheduled, whatever
\* is called.
TimerSettled ==
    \A w \in Instances :
        (destroyed[w] \/ HasRun(w)) =>
            /\ Pending(w) = {}
            /\ Pending(w)' = {}
            /\ RunsOf(w)' = RunsOf(w)

\* C8: the callback of createTimer runs at most once and never before
\* delay has elapsed; once destroy has been called it never runs, and a
\* second destroy, or one after the callback ran, changes nothing; a timer
\* whose destroy is never called runs eventually.
C8_TimerHandle ==
    /\ []TimerRunsOnceInTime
    /\ [][TimerSettled]_vars
    /\ \A w \in Instances : Created(w) ~> (destroyed[w] \/ HasRun(w))

\* C8 witness: one timer was destroyed before it was due and has not run
\* although its time has passed; the other was not destroyed and ran once.
C8_Witness ==
    /\ Created(1) /\ Created(2)
    /\ destroyed[1] /\ ~HasRun(1) /\ now > TimerCall(1).due
    /\ ~destroyed[2] /\ Cardinality(RunsOf(2)) = 1

(***************************************************************************)
(* getPropertyNames called on its own, on the objects of a prototype       *)
(* chain Leaf -> Middle -> Base that ends at Object.prototype or at null.  *)
(* Object.prototype has the accessor __proto__ where the host defines it.  *)
(***************************************************************************)
Base == 5
Middle == 6
Leaf == 7

\* The own names one level of the chain can have, in creation order.
LevelShapes ==
    { <<>>, <<"a">>, <<"b">>, <<"a", "b">>, <<"b", "a">>,
      <<"__proto__">>, <<"__proto__", "a">> }

\* The own properties of a level: b is not enumerable, the others are.
LevelProps(names) ==
    [i \in 1..Len(names) |->
        Prop(names[i], DataDesc(Prim1, names[i] # "b", TRUE, TRUE))]

NamesHeap(protoAccessor, top, base, middle, leaf) ==
    << MkObject("object", NullRef,
                IF protoAccessor
                THEN <<Prop("__proto__", AccDesc(Getter, Setter, FALSE, TRUE))>>
                ELSE <<>>,
                <<>>, Undefined),
       MkObject("array", ObjectPrototype, <<>>, <<>>, Undefined),
       MkObject("function", ObjectPrototype, <<>>, <<>>, ObjectPrototype),
       MkObject("function", ObjectPrototype, <<>>, <<>>, Undefined),
       MkObject("object", top, LevelProps(base), <<>>, Undefined),
       MkObject("object", Base, LevelProps(middle), <<>>, Undefined),
       MkObject("object", Middle, LevelProps(leaf), <<>>, Undefined) >>

NamesHeaps ==
    { NamesHeap(protoAccessor, top, base, middle, leaf) :
        protoAccessor \in BOOLEAN, top \in {NullRef, ObjectPrototype},
        base \in LevelShapes, middle \in LevelShapes, leaf \in LevelShapes }

InitNames ==
    /\ heap \in NamesHeaps
    /\ pre = heap
    /\ call = NoCall
    /\ outcome = NoOutcome
    /\ UtilIdle

\* getPropertyNames(object)
CallGetPropertyNames ==
    /\ call.op = "none"
    /\ \E object \in {Base, Middle, Leaf} :
         /\ pre' = heap
         /\ heap' = heap
         /\ call' = [op |-> "getPropertyNames",
                     kwArgs |-> CopyArgs(<<object>>, Undefined, FALSE, FALSE,
                                         FALSE, FALSE),
                     prototype |-> NullRef, strict |-> FALSE]
         /\ outcome' = [ret |-> getPropertyNames(heap, object), err |-> "none"]
    /\ UNCHANGED utilVars

NextNames == CallGetPropertyNames

SpecNames == InitNames /\ [][NextNames]_vars

\* The levels of the prototype chain from object up to, excluding, null
\* and Object.prototype.
RECURSIVE Levels(_, _)
Levels(h, object) ==
    IF object = NullRef \/ object = ObjectPrototype THEN <<>>
    ELSE <<object>> \o Levels(h, GetPrototypeOf(h, object))

IsGetPropertyNames == call.op = "getPropertyNames"

\* The names found at the levels of the object of the call.
FoundNames ==
    LET levels == Levels(pre, Sources[1])
    IN  UNION { {pre[levels[k]].props[i].name : i \in 1..Len(pre[levels[k]].props)} :
                k \in 1..Len(levels) }

\* Where name n is first seen from the instance outward: its level and its
\* position among that level's own names.
FirstSeen(n) ==
    LET levels == Levels(pre, Sources[1])
        k == CHOOSE k \in 1..Len(levels) :
                /\ HasOwn(pre, levels[k], n)
                /\ \A j \in 1..(k - 1) : ~HasOwn(pre, levels[j], n)
    IN  <<k, OwnIndex(pre, levels[k], n)>>

\* C11: getPropertyNames(object) returns every own name found at a level
\* of the chain from object up to, excluding, Object.prototype or null,
\* each exactly once, in first-seen order from the instance outward, and
\* no other name.
C11_PropertyNamesOnce ==
    IsGetPropertyNames =>
        LET names == outcome.ret
        IN  /\ \A n \in FoundNames :
                 Cardinality({k \in 1..Len(names) : names[k] = n}) = 1
            /\ \A k \in 1..Len(names) : names[k] \in FoundNames
            /\ \A i, j \in 1..Len(names) :
                 (i < j /\ names[i] # names[j]) =>
                     \/ FirstSeen(names[i])[1] < FirstSeen(names[j])[1]
                     \/ /\ FirstSeen(names[i])[1] = FirstSeen(names[j])[1]
                        /\ FirstSeen(names[i])[2] < FirstSeen(names[j])[2]

\* C12: a debounced function has at most one scheduled execution pending,
\* and whenever one is pending the wrapper's timer designates it (so that
\* the next invocation, from outside or from inside the callback, cancels
\* it).
C12_DebounceOnePending ==
    \A w \in Instances :
        /\ Cardinality(Pending(w)) <= 1
        /\ \A t \in Pending(w) : timer[w] = t.id

\* C13: a throttleAfter function is closed only while the execution its
\* window scheduled is still to take place: once it has taken place,
\* whether the callback returned or raised, the window is reset, and every
\* invocation made from outside while no execution is scheduled is
\* accepted and schedules one.
C13_ThrottleAfterReopens ==
    /\ ran[1] => Pending(1) # {}
    /\ \A i \in CallsOf(1) :
         (~calls[i].pendingBefore /\ ~calls[i].nested) => i \in Opened

(***************************************************************************)
(* copy over sources and a target that hold plain objects under the same   *)
(* name: S1.a is Nested, S2.a is Inner, T.a is Kept.                       *)
(***************************************************************************)
Kept == 16

\* The shapes of S1.a, S2.a and T.a: absent, a plain object, and a plain
\* object under other attributes (read-only, hidden, non-configurable).
MergeS1Shapes ==
    { NoDesc,
      DataDesc(Nested, TRUE, TRUE, TRUE),
      DataDesc(Nested, TRUE, FALSE, FALSE),
      DataDesc(Prim1, TRUE, TRUE, TRUE) }

MergeS2Shapes ==
    { NoDesc,
      DataDesc(Inner, TRUE, TRUE, TRUE),
      DataDesc(Inner, FALSE, TRUE, TRUE) }

MergeTargetShapes ==
    { NoDesc,
      DataDesc(Kept, TRUE, TRUE, TRUE),
      DataDesc(Kept, TRUE, TRUE, FALSE),
      DataDesc(Kept, TRUE, FALSE, TRUE) }

MergeHeaps ==
    { Append(InitialHeap(s1a, NoDesc, s2a, ta, NoDesc),
             MkObject("object", ObjectPrototype,
                      <<Prop("z", DataDesc(Prim3, TRUE, TRUE, TRUE))>>, <<>>,
                      Undefined)) :
        s1a \in MergeS1Shapes, s2a \in MergeS2Shapes, ta \in MergeTargetShapes }

InitMerge ==
    /\ heap \in MergeHeaps
    /\ pre = heap
    /\ call = NoCall
    /\ outcome = NoOutcome
    /\ UtilIdle

NextMerge == CallCopy

SpecMerge == InitMerge /\ [][NextMerge]_vars

\* The own names of an object.
OwnNameSet(h, id) == {h[id].props[i].name : i \in 1..Len(h[id].props)}

\* Source number i holds a plain object under a.
SourceHoldsObject(i) ==
    SourceHas(Sources[i], "a") /\ isObject(pre, SourceValue(Sources[i], "a"))

\* The supplied target holds a plain object under a.
TargetHoldsObject == TargetSupplied /\ isObject(pre, Get(pre, kw.target, "a"))

\* A deep copy returned whose last source with the name a holds a plain
\* object under it, as does an earlier source or the supplied target.
IsMerge ==
    /\ call.op = "copy" /\ kw.deep /\ Returns
    /\ LastWith("a") # 0
    /\ SourceHoldsObject(LastWith("a"))
    /\ \/ TargetHoldsObject
       \/ \E i \in 1..(LastWith("a") - 1) : SourceHoldsObject(i)

\* No plain object that existed before the call was modified, bar the
\* target.
NestedUntouched ==
    \A id \in 1..Len(pre) : id # Result => heap[id] = pre[id]

\* The result holds under a a new copy of the last source's object alone:
\* it has that object's copied names and no other.
Replaced ==
    LET v == ResultValue("a")
        o == SourceValue(Sources[LastWith("a")], "a")
    IN  /\ IsCopyOf(v, o, kw.descriptors, kw.inherited)
        /\ OwnNameSet(heap, v) = CopiedNames(o, kw.descriptors, kw.inherited)
        /\ NestedUntouched

\* C14 as stated: with deep, a name that holds a plain object in two
\* sources, or in the supplied target and in a source, ends up holding a
\* copy of the last source's object alone, and the objects held before
\* are not modified.
C14_NestedReplaced == IsMerge => Replaced

\* C14 amended: the same, for a name whose assignment the target accepts;
\* a name the target holds read-only keeps the target's own object, and
\* no object is modified.
C14_NestedReplacedWritable ==
    IsMerge =>
        IF Copied("a") THEN Replaced
        ELSE ResultValue("a") = BeforeValue("a") /\ NestedUntouched

\* C14 witness: a deep copy of S1 then S2 into the target returned; Nested,
\* Inner and Kept were held under a; the result holds a new object with
\* the one name of Inner, and Kept is as it was.
C14_Witness ==
    /\ IsMerge /\ TargetHoldsObject
    /\ Sources = <<S1, S2>> /\ ~kw.descriptors
    /\ SourceHoldsObject(1) /\ SourceHoldsObject(2)
    /\ Get(heap, T, "a") > Len(pre)
    /\ OwnNameSet(heap, Get(heap, T, "a")) = {"x"}
    /\ heap[Kept] = pre[Kept]

=============================================================================
